---------------------------- MODULE Spec2Model ----------------------------
(***************************************************************************)
(* Model of the relief-inventory request handlers of src/app.py: the       *)
(* catalogue (Item), the counterparties (Donor, Beneficiary), the ledger   *)
(* (Transaction), the signed-sum stock query and the handlers item_new,    *)
(* item_edit, intake, distribute, dashboard, transactions, import_items.   *)
(*                                                                         *)
(* A table is the sequence of its rows, a row's id is its position.  Text  *)
(* is a sequence of one-character strings, so that strip, lower and split  *)
(* are computed, not assumed.  A nullable column holds None (<<>>) or      *)
(* Some(v) (<<v>>).  Columns no handler reads back in a decision (notes,   *)
(* contact, parish, location_id) are left out.                             *)
(* One step of the model is one whole request: the handler runs, and the   *)
(* session is committed, or rolled back when the handler returns without   *)
(* commit or raises.  Two distribute requests served by two threads at     *)
(* once are modelled in two steps each, the stock check and the insert     *)
(* (distribute_check, distribute_insert); threads holds where each is.     *)
(***************************************************************************)
EXTENDS Integers, Sequences, FiniteSets, TLC

VARIABLES items, txs, donors, beneficiaries, clock, fk_enforced, req, resp,
          threads

vars == <<items, txs, donors, beneficiaries, clock, fk_enforced, req, resp,
          threads>>

db == <<items, txs, donors, beneficiaries, clock, fk_enforced>>

---------------------------------------------------------------------------
(* Bounds of the model. *)

MaxItems == 2

MaxTx == 3

MaxRows == 2

---------------------------------------------------------------------------
(* Nullable values. *)

None == <<>>

Some(v) == <<v>>

IsNone(o) == o = <<>>

Val(o) == o[1]

---------------------------------------------------------------------------
(* Text: Python's str.strip, str.lower, str.split, str.join; SQL's lower. *)

Upper == <<"A", "B", "F", "K", "L", "N", "R", "S", "W">>

LowerOf == <<"a", "b", "f", "k", "l", "n", "r", "s", "w">>

IsSpace(c) == c = " "

lower_char(c) == IF \E k \in 1..Len(Upper) : Upper[k] = c
                 THEN LowerOf[CHOOSE k \in 1..Len(Upper) : Upper[k] = c]
                 ELSE c

lower(s) == [k \in 1..Len(s) |-> lower_char(s[k])]

RECURSIVE lstrip(_)
lstrip(s) == IF s # <<>> /\ IsSpace(Head(s)) THEN lstrip(Tail(s)) ELSE s

RECURSIVE rstrip(_)
rstrip(s) == IF s # <<>> /\ IsSpace(s[Len(s)])
             THEN rstrip(SubSeq(s, 1, Len(s) - 1))
             ELSE s

strip(s) == rstrip(lstrip(s))

(* s.split(): the maximal runs of non-space characters, in order. *)
RECURSIVE split_from(_, _, _)
split_from(s, word, words) ==
    IF s = <<>>
    THEN IF word = <<>> THEN words ELSE Append(words, word)
    ELSE IF IsSpace(Head(s))
         THEN split_from(Tail(s), <<>>,
                         IF word = <<>> THEN words ELSE Append(words, word))
         ELSE split_from(Tail(s), Append(word, Head(s)), words)

split(s) == split_from(s, <<>>, <<>>)

(* " ".join(words) *)
RECURSIVE join(_)
join(words) ==
    IF words = <<>> THEN <<>>
    ELSE IF Len(words) = 1 THEN words[1]
    ELSE words[1] \o <<" ">> \o join(Tail(words))

normalize_name(s) == join(split(lower(strip(s))))

(* x.strip() or None *)
strip_or_none(s) == IF strip(s) = <<>> THEN None ELSE Some(strip(s))

(* x.strip() or "unit" *)
strip_or_unit(s) == IF strip(s) = <<>> THEN <<"u", "n", "i", "t">> ELSE strip(s)

(* SQL "col = :param"; SQLAlchemy renders "col == None" as "col IS NULL". *)
sql_eq_nullable(col, param) == IF IsNone(param) THEN IsNone(col)
                               ELSE ~IsNone(col) /\ Val(col) = Val(param)

---------------------------------------------------------------------------
(* The stock query: Item LEFT OUTER JOIN Transaction, GROUP BY Item.id,    *)
(* SUM(CASE WHEN ttype = 'IN' THEN qty ELSE -qty END).                     *)

(* The joined rows of one item: its ledger entries in table order, or one  *)
(* row of NULLs when the item has none.                                    *)
joined_rows(i, tx) ==
    LET own == SelectSeq(tx, LAMBDA t : t.item_id = i)
    IN  IF own = <<>> THEN <<None>> ELSE [k \in 1..Len(own) |-> Some(own[k])]

(* case_expr with the else branch unsigned. *)
case_expr_unsigned(row) ==
    IF IsNone(row) THEN None ELSE Some(Val(row).qty)


(* CASE WHEN ttype = 'IN' THEN qty ELSE -qty END on one joined row; on the *)
(* NULL row the comparison is not true and -NULL is NULL.                  *)
case_expr(row) ==
    IF IsNone(row) THEN None
    ELSE IF Val(row).ttype = "IN" THEN Some(Val(row).qty)
    ELSE Some(0 - Val(row).qty)

(* SQL SUM: NULLs are skipped, and the sum of no value is NULL. *)
RECURSIVE sql_sum(_)
sql_sum(vals) ==
    IF vals = <<>> THEN None
    ELSE LET rest == sql_sum(Tail(vals))
         IN  IF IsNone(Head(vals)) THEN rest
             ELSE IF IsNone(rest) THEN Head(vals)
             ELSE Some(Val(Head(vals)) + Val(rest))

stock_expr(i, tx) ==
    LET rows == joined_rows(i, tx)
    IN  sql_sum([k \in 1..Len(rows) |-> case_expr(rows[k])])

(* One (item id, stock) row per catalogue item. *)
get_stock_query(its, tx) ==
    [i \in 1..Len(its) |-> <<i, stock_expr(i, tx)>>]

(* Python's "stock or 0". *)
or_zero(s) == IF IsNone(s) THEN 0 ELSE Val(s)

(* The stock the dashboard works with for item i: its row of the stock     *)
(* query, read with "stock or 0".                                          *)
dashboard_stock(its, tx, i) == or_zero(get_stock_query(its, tx)[i][2])

---------------------------------------------------------------------------
(* Rows. *)

Item(name, category, unit, sku, min_qty) ==
    [name |-> name, category |-> category, unit |-> unit, sku |-> sku,
     min_qty |-> min_qty]

Transaction(item_id, ttype, qty, donor_id, beneficiary_id, created_at) ==
    [item_id |-> item_id, ttype |-> ttype, qty |-> qty, donor_id |-> donor_id,
     beneficiary_id |-> beneficiary_id, created_at |-> created_at]

(* session_add as an update of the newest row. *)
session_add_overwrite(table, row) ==
    IF table = <<>> THEN <<row>> ELSE [table EXCEPT ![Len(table)] = row]

(* db.session.add(row) followed by the INSERT of the flush or commit. *)
session_add(table, row) == Append(table, row)

ItemIds == 1..Len(items)

(* Item.sku is unique=True: two rows never hold the same non-NULL sku. *)
sku_unique(its) ==
    \A i, j \in 1..Len(its) :
        (i # j /\ ~IsNone(its[i].sku)) => its[i].sku # its[j].sku

(* Transaction.item_id is a foreign key to item.id; the store checks it    *)
(* only when it enforces foreign keys (SQLite, the default DATABASE_URL,   *)
(* does not unless told to; other stores do).                              *)
item_fk_ok(its, item_id) == ~fk_enforced \/ item_id \in 1..Len(its)

(* Query.filter(...).first(), given which rows match the filter: the      *)
(* position of the first matching row, or 0 for no row.                    *)
first_match(matches) ==
    IF \E k \in 1..Len(matches) : matches[k]
    THEN CHOOSE k \in 1..Len(matches) :
            matches[k] /\ \A j \in 1..(k - 1) : ~matches[j]
    ELSE 0

(* The duplicate lookup of item_new and import_items:                      *)
(* func.lower(Item.name) == norm, Item.category == category,               *)
(* Item.unit == unit.                                                      *)
duplicate_match(it, norm, category, unit) ==
    /\ lower(it.name) = norm
    /\ sql_eq_nullable(it.category, category)
    /\ it.unit = unit

find_existing(its, norm, category, unit) ==
    first_match([k \in 1..Len(its) |->
                    duplicate_match(its[k], norm, category, unit)])

(* session_remove that keeps what the request flushed. *)
session_remove_keeps_flushed(committed, flushed) == flushed

(* The table a request leaves behind when it ends without commit (it      *)
(* returns early or raises): the request's session is removed, and the     *)
(* rows it added and flushed are rolled back.                              *)
session_remove(committed, flushed) == committed

(* An unhandled exception: the response is a 500 and the session is rolled *)
(* back, so nothing of the request is stored.                              *)
Raised(exc) == [outcome |-> "error", exc |-> exc]

---------------------------------------------------------------------------
(* POST /items/new *)

item_new(form) ==
    LET name     == strip(form.name)
        category == strip_or_none(form.category)
        unit     == strip_or_unit(form.unit)
        sku      == strip_or_none(form.sku)
        min_qty  == form.min_qty
        norm     == normalize_name(name)
        existing == find_existing(items, norm, category, unit)
        added    == session_add(items, Item(name, category, unit, sku, min_qty))
    IN  /\ req' = [op |-> "item_new", form |-> form]
        /\ IF existing # 0
           THEN /\ resp' = [outcome |-> "duplicate", existing_id |-> existing]
                /\ UNCHANGED <<db, threads>>
           ELSE IF ~sku_unique(added)
           THEN /\ resp' = Raised("IntegrityError")
                /\ UNCHANGED <<db, threads>>
           ELSE /\ Len(items) < MaxItems
                /\ items' = added
                /\ resp' = [outcome |-> "created", item_id |-> Len(added)]
                /\ UNCHANGED <<txs, donors, beneficiaries, clock, fk_enforced, threads>>

(* POST /items/<item_id>/edit *)

item_edit(item_id, form) ==
    /\ req' = [op |-> "item_edit", item_id |-> item_id, form |-> form]
    /\ IF item_id \notin ItemIds
       THEN /\ resp' = [outcome |-> "not_found"]
            /\ UNCHANGED <<db, threads>>
       ELSE LET edited == [items EXCEPT ![item_id] =
                              Item(strip(form.name),
                                   strip_or_none(form.category),
                                   strip_or_unit(form.unit),
                                   strip_or_none(form.sku),
                                   form.min_qty)]
            IN  IF ~sku_unique(edited)
                THEN /\ resp' = Raised("IntegrityError")
                     /\ UNCHANGED <<db, threads>>
                ELSE /\ items' = edited
                     /\ resp' = [outcome |-> "updated"]
                     /\ UNCHANGED <<txs, donors, beneficiaries, clock,
                                    fk_enforced, threads>>

---------------------------------------------------------------------------
(* Lazy counterparty creation: filter_by(name=...).first(), else add and   *)
(* flush.  The result is the table as the session sees it and the row id.  *)
(* find_or_create_always is the creation without the lookup.               *)

find_or_create_always(table, name) ==
    IF IsNone(name) THEN [table |-> table, id |-> None]
    ELSE [table |-> session_add(table, [name |-> Val(name)]),
          id |-> Some(Len(table) + 1)]

find_or_create(table, name) ==
    IF IsNone(name) THEN [table |-> table, id |-> None]
    ELSE LET found == first_match([k \in 1..Len(table) |->
                                      table[k].name = Val(name)])
         IN  IF found # 0 THEN [table |-> table, id |-> Some(found)]
             ELSE [table |-> session_add(table, [name |-> Val(name)]),
                   id |-> Some(Len(table) + 1)]

(* POST /intake *)

intake(item_id, qty, donor_name) ==
    LET donor == find_or_create(donors, strip_or_none(donor_name))
        tx    == Transaction(item_id, "IN", qty, donor.id, None, clock)
    IN  /\ req' = [op |-> "intake", item_id |-> item_id, qty |-> qty,
                   party |-> donor_name]
        /\ IF ~item_fk_ok(items, item_id)
           THEN /\ resp' = Raised("IntegrityError")
                /\ UNCHANGED <<db, threads>>
           ELSE /\ Len(txs) < MaxTx
                /\ txs' = session_add(txs, tx)
                /\ donors' = donor.table
                /\ clock' = clock + 1
                /\ resp' = [outcome |-> "recorded"]
                /\ UNCHANGED <<items, beneficiaries, fk_enforced, threads>>

(* stock_map.get(item_id, 0): the row's stock, None included, for an item  *)
(* of the catalogue, and 0 for an id the query returned no row for.        *)
stock_map_get(item_id) ==
    IF item_id \in ItemIds
    THEN get_stock_query(items, txs)[item_id][2]
    ELSE Some(0)

(* POST /distribute *)

distribute(item_id, qty, beneficiary_name) ==
    LET beneficiary == find_or_create(beneficiaries,
                                      strip_or_none(beneficiary_name))
        stock == stock_map_get(item_id)
        tx    == Transaction(item_id, "OUT", qty, None, beneficiary.id, clock)
    IN  /\ req' = [op |-> "distribute", item_id |-> item_id, qty |-> qty,
                   party |-> beneficiary_name]
        /\ IF IsNone(stock)
           THEN \* None < qty raises TypeError
                /\ resp' = Raised("TypeError")
                /\ beneficiaries' =
                       session_remove(beneficiaries, beneficiary.table)
                /\ UNCHANGED <<items, txs, donors, clock, fk_enforced,
                               threads>>
           ELSE IF Val(stock) < qty
           THEN \* returns without commit
                /\ resp' = [outcome |-> "insufficient_stock"]
                /\ beneficiaries' =
                       session_remove(beneficiaries, beneficiary.table)
                /\ UNCHANGED <<items, txs, donors, clock, fk_enforced,
                               threads>>
           ELSE IF ~item_fk_ok(items, item_id)
           THEN /\ resp' = Raised("IntegrityError")
                /\ UNCHANGED <<db, threads>>
           ELSE /\ Len(txs) < MaxTx
                /\ txs' = session_add(txs, tx)
                /\ beneficiaries' = beneficiary.table
                /\ clock' = clock + 1
                /\ resp' = [outcome |-> "recorded"]
                /\ UNCHANGED <<items, donors, fk_enforced, threads>>

---------------------------------------------------------------------------
(* POST /distribute served by a thread of its own, in two steps: up to the *)
(* stock check, and from the insert on.  Other requests commit between     *)
(* the two; the check reads what is committed.                             *)

Threads == {1, 2}

Idle ==
    [pc |-> "idle", item_id |-> 0, qty |-> 0, known |-> FALSE, name |-> None,
     found |-> None, stock |-> 0, seen |-> 0, pos |-> 0, outcome |-> "none"]

(* passes_check that lets every quantity pass. *)
passes_check_always(stock, qty) == TRUE

(* The negation of "stock_map.get(item_id, 0) < qty". *)
passes_check(stock, qty) == ~(Val(stock) < qty)

distribute_check(w, item_id, qty, beneficiary_name) ==
    LET name        == strip_or_none(beneficiary_name)
        beneficiary == find_or_create(beneficiaries, name)
        stock       == stock_map_get(item_id)
        request     == [Idle EXCEPT !.item_id = item_id, !.qty = qty,
                                    !.known = item_id \in ItemIds,
                                    !.name = name, !.seen = Len(txs)]
    IN  /\ threads[w].pc = "idle"
        /\ threads' = [threads EXCEPT ![w] =
               IF IsNone(stock)
               THEN [request EXCEPT !.pc = "done", !.outcome = "TypeError"]
               ELSE IF ~passes_check(stock, qty)
               THEN [request EXCEPT !.pc = "done", !.stock = Val(stock),
                                    !.outcome = "insufficient_stock"]
               ELSE [request EXCEPT
                        !.pc = "checked", !.stock = Val(stock),
                        !.found = IF beneficiary.table = beneficiaries
                                  THEN beneficiary.id ELSE None]]
        /\ UNCHANGED <<db, req, resp>>

distribute_insert(w) ==
    LET t      == threads[w]
        create == ~IsNone(t.name) /\ IsNone(t.found)
        table  == IF create
                  THEN session_add(beneficiaries, [name |-> Val(t.name)])
                  ELSE beneficiaries
        id     == IF create THEN Some(Len(table)) ELSE t.found
        tx     == Transaction(t.item_id, "OUT", t.qty, None, id, clock)
    IN  /\ t.pc = "checked"
        /\ IF ~item_fk_ok(items, t.item_id)
           THEN /\ threads' = [threads EXCEPT ![w].pc = "done",
                                              ![w].outcome = "IntegrityError"]
                /\ UNCHANGED <<db, req, resp>>
           ELSE /\ Len(txs) < MaxTx
                /\ txs' = session_add(txs, tx)
                /\ beneficiaries' = table
                /\ clock' = clock + 1
                /\ threads' = [threads EXCEPT ![w].pc = "done",
                                              ![w].outcome = "recorded",
                                              ![w].pos = Len(txs) + 1]
                /\ UNCHANGED <<items, donors, fk_enforced, req, resp>>

---------------------------------------------------------------------------
(* list.sort(key=...), ORDER BY: ascending and stable, on a sequence of    *)
(* <<key, element>> pairs.                                                 *)

RECURSIVE insert_sorted(_, _)
insert_sorted(sorted, x) ==
    IF sorted = <<>> THEN <<x>>
    ELSE IF x[1] < Head(sorted)[1]
         THEN <<x>> \o sorted
         ELSE <<Head(sorted)>> \o insert_sorted(Tail(sorted), x)

RECURSIVE sort_keyed(_)
sort_keyed(seq) ==
    IF seq = <<>> THEN <<>>
    ELSE insert_sorted(sort_keyed(SubSeq(seq, 1, Len(seq) - 1)), seq[Len(seq)])

(* The elements of a sorted sequence of <<key, element>> pairs. *)
elements(sorted) == [k \in 1..Len(sorted) |-> sorted[k][2]]

RECURSIVE py_sum(_)
py_sum(seq) == IF seq = <<>> THEN 0 ELSE Head(seq) + py_sum(Tail(seq))

(* The dashboard's low-stock test on one stock row:                        *)
(* stock = stock or 0; item.min_qty and stock < item.min_qty.              *)
is_low(it, stock) == it.min_qty # 0 /\ or_zero(stock) < it.min_qty

(* The dashboard's low list: (item id, stock or 0) of the rows that pass   *)
(* the test, sorted by stock.                                              *)
low_stock(its, tx) ==
    LET rows  == get_stock_query(its, tx)
        low   == SelectSeq(rows, LAMBDA r : is_low(its[r[1]], r[2]))
        shown == [k \in 1..Len(low) |-> <<low[k][1], or_zero(low[k][2])>>]
    IN  elements(sort_keyed([k \in 1..Len(shown) |-> <<shown[k][2], shown[k]>>]))

(* GET / *)

dashboard ==
    LET stock_rows == get_stock_query(items, txs)
    IN  /\ req' = [op |-> "dashboard"]
        /\ resp' = [outcome |-> "ok",
                    total_items |-> Len(items),
                    total_in_stock |->
                        py_sum([k \in 1..Len(stock_rows) |->
                                   or_zero(stock_rows[k][2])]),
                    low_stock |-> low_stock(items, txs)]
        /\ UNCHANGED <<db, threads>>

(* GET /transactions: the ledger, newest first. *)

transactions ==
    /\ req' = [op |-> "transactions"]
    /\ resp' = [outcome |-> "ok",
                rows |-> elements(sort_keyed(
                            [k \in 1..Len(txs) |-> <<0 - txs[k].created_at, k>>]))]
    /\ UNCHANGED <<db, threads>>

---------------------------------------------------------------------------
(* CSV import.  pandas.read_csv gives each cell as NaN (an empty field),   *)
(* a string or a number; a row is a function from the file's columns to    *)
(* cells, read with row.get(column, default).                              *)

NaN == [kind |-> "nan", s |-> <<>>, n |-> 0]

Str(s) == [kind |-> "str", s |-> s, n |-> 0]

Num(n) == [kind |-> "num", s |-> <<>>, n |-> n]

row_get(row, col, default) == IF col \in DOMAIN row THEN row[col] ELSE default

Digits == <<"0", "1", "2", "3", "4", "5", "6", "7", "8", "9">>

RECURSIVE digits_of(_)
digits_of(n) == IF n < 10 THEN <<Digits[n + 1]>>
                ELSE digits_of(n \div 10) \o <<Digits[(n % 10) + 1]>>

(* str(cell) *)
py_str(cell) ==
    IF cell.kind = "nan" THEN <<"n", "a", "n">>
    ELSE IF cell.kind = "str" THEN cell.s
    ELSE IF cell.n < 0 THEN <<"-">> \o digits_of(0 - cell.n)
    ELSE digits_of(cell.n)

IsDigit(c) == \E k \in 1..Len(Digits) : Digits[k] = c

RECURSIVE digits_value(_)
digits_value(s) ==
    IF s = <<>> THEN 0
    ELSE 10 * digits_value(SubSeq(s, 1, Len(s) - 1))
         + (CHOOSE k \in 1..Len(Digits) : Digits[k] = s[Len(s)]) - 1

(* int(cell or 0): None stands for the ValueError that int() raises on NaN *)
(* (NaN is truthy, so "or 0" does not replace it) and on text that is no   *)
(* integer literal.                                                        *)
py_int_or_zero(cell) ==
    IF cell.kind = "num" THEN Some(cell.n)
    ELSE IF cell.kind = "nan" THEN None
    ELSE LET t == strip(cell.s)
         IN  IF t # <<>> /\ \A k \in 1..Len(t) : IsDigit(t[k])
             THEN Some(digits_value(t))
             ELSE None

(* The loop over the rows.  st is the session: the catalogue with the      *)
(* items added so far, and the two counters.                               *)
RECURSIVE import_rows(_, _)
import_rows(rows, st) ==
    IF rows = <<>> THEN st
    ELSE
      LET row      == Head(rows)
          name     == strip(py_str(row_get(row, "name", Str(<<>>))))
          category == strip_or_none(py_str(row_get(row, "category", Str(<<>>))))
          unit     == strip_or_unit(
                          py_str(row_get(row, "unit", Str(<<"u", "n", "i", "t">>))))
          sku      == strip_or_none(py_str(row_get(row, "sku", Str(<<>>))))
          min_qty  == py_int_or_zero(row_get(row, "min_qty", Num(0)))
          existing == find_existing(st.items, normalize_name(name), category, unit)
      IN  IF name = <<>> THEN import_rows(Tail(rows), st)
          ELSE IF IsNone(min_qty) THEN [st EXCEPT !.exc = Some("ValueError")]
          ELSE IF ~sku_unique(st.items)
               \* the query flushes the items added so far
          THEN [st EXCEPT !.exc = Some("IntegrityError")]
          ELSE IF existing # 0
          THEN import_rows(Tail(rows), [st EXCEPT !.skipped = @ + 1])
          ELSE import_rows(Tail(rows),
                   [st EXCEPT !.items = session_add(@,
                                  Item(name, category, unit, sku, Val(min_qty))),
                              !.created = @ + 1])

(* POST /import/items *)

import_items(rows) ==
    LET st == import_rows(rows, [items |-> items, created |-> 0,
                                 skipped |-> 0, exc |-> None])
    IN  /\ req' = [op |-> "import_items", rows |-> rows]
        /\ IF ~IsNone(st.exc)
           THEN /\ resp' = Raised(Val(st.exc))
                /\ UNCHANGED <<db, threads>>
           ELSE IF ~sku_unique(st.items)
           THEN /\ resp' = Raised("IntegrityError")
                /\ UNCHANGED <<db, threads>>
           ELSE /\ Len(st.items) <= MaxItems
                /\ items' = st.items
                /\ resp' = [outcome |-> "import_complete",
                            created |-> st.created, skipped |-> st.skipped]
                /\ UNCHANGED <<txs, donors, beneficiaries, clock, fk_enforced, threads>>

---------------------------------------------------------------------------
(* Request inputs. *)

Rice == <<"R", "i", "c", "e">>

RicePadded == <<" ", "r", "i", "c", "e", " ">>

RiceBag == <<"R", "i", "c", "e", " ", " ", "B", "a", "g">>

Soap == <<"S", "o", "a", "p">>

Food == <<"F", "o", "o", "d">>

Kg == <<"k", "g">>

Litre == <<"L">>

Sku1 == <<"S", "1">>

Ann == <<"A", "n", "n">>

Blank == <<>>

Form(name, category, unit, sku, min_qty) ==
    [name |-> name, category |-> category, unit |-> unit, sku |-> sku,
     min_qty |-> min_qty]

Init ==
    /\ items = <<>>
    /\ txs = <<>>
    /\ donors = <<>>
    /\ beneficiaries = <<>>
    /\ clock = 1
    /\ fk_enforced \in BOOLEAN
    /\ req = [op |-> "none"]
    /\ resp = [outcome |-> "none"]
    /\ threads = [w \in Threads |-> Idle]

(* Every handler, each on few inputs. *)

Forms == {Form(Rice, Blank, Kg, Blank, 0), Form(Soap, Blank, Kg, Sku1, 2)}

Rows == {[name |-> Str(Soap), category |-> NaN, unit |-> Str(Kg),
          sku |-> Str(Sku1), min_qty |-> Num(2)]}

BatchesOf(rowset) == UNION {[1..n -> rowset] : n \in 1..MaxRows}

Next ==
    \/ \E f \in Forms : item_new(f)
    \/ \E f \in Forms : item_edit(1, f)
    \/ \E i \in 1..2 : intake(i, 2, Ann)
    \/ \E i \in 1..2 : distribute(i, 1, Ann)
    \/ dashboard
    \/ transactions
    \/ \E rows \in BatchesOf(Rows) : import_items(rows)

Spec == Init /\ [][Next]_vars

(* The ledger: intake and distribute on positive, zero and negative        *)
(* quantities, on items of the catalogue and on an id that is not.         *)

LedgerForms == {Form(Rice, Blank, Kg, Blank, 0), Form(Soap, Blank, Kg, Blank, 0)}

Qtys == {-1, 0, 1, 2}

NextLedger ==
    \/ \E f \in LedgerForms : item_new(f)
    \/ \E i \in 1..2, q \in Qtys : intake(i, q, Blank)
    \/ \E i \in 1..2, q \in Qtys : distribute(i, q, Blank)
    \/ dashboard

SpecLedger == Init /\ [][NextLedger]_vars

(* The low-stock list: one item under every threshold. *)

ThresholdForms == {Form(Rice, Blank, Kg, Blank, m) : m \in {-1, 0, 2}}

NextDashboard ==
    \/ \E f \in ThresholdForms : item_new(f)
    \/ \E f \in ThresholdForms : item_edit(1, f)
    \/ \E q \in Qtys : intake(1, q, Blank)
    \/ \E q \in Qtys : distribute(1, q, Blank)
    \/ dashboard

SpecDashboard == Init /\ [][NextDashboard]_vars

(* The catalogue: item_new and import_items on names that differ in case   *)
(* and spacing, on two units, and on rows with empty and malformed cells.  *)

Names == {Rice, RicePadded, RiceBag}

CatalogueForms ==
    {Form(n, Food, u, Blank, 0) : n \in Names, u \in {Kg, Litre}}
    \cup {Form(Rice, Blank, Kg, Blank, 0)}

CsvRow(name, sku, min_qty) ==
    [name |-> name, category |-> Str(Food), unit |-> Str(Kg), sku |-> sku,
     min_qty |-> min_qty]

CatalogueRows ==
    {CsvRow(Str(Rice), Str(Sku1), Num(0)),
     CsvRow(Str(Soap), Str(Sku1), Num(0)),
     CsvRow(Str(Soap), Str(Ann), NaN),
     CsvRow(Str(Soap), Str(Ann), Str(<<"a", "b", "c">>)),
     CsvRow(Str(<<" ">>), NaN, Num(0)),
     CsvRow(NaN, NaN, Num(0))}

NextCatalogue ==
    \/ \E f \in CatalogueForms : item_new(f)
    \/ \E rows \in BatchesOf(CatalogueRows) : import_items(rows)

SpecCatalogue == Init /\ [][NextCatalogue]_vars

(* Requests one at a time that name their donor or beneficiary, with and   *)
(* without surrounding blanks, on an item with too little and with enough  *)
(* stock.                                                                  *)

AnnPadded == <<" ", "A", "n", "n">>

Bob == <<"B", "o", "b">>

PartyNames == {Blank, Ann, AnnPadded, Bob}

NextParties ==
    \/ item_new(Form(Rice, Blank, Kg, Blank, 0))
    \/ \E d \in PartyNames : intake(1, 1, d)
    \/ \E q \in {1, 2}, b \in PartyNames : distribute(1, q, b)

SpecParties == Init /\ [][NextParties]_vars

(* Two distribute requests at once, beside intakes, on one item and on     *)
(* quantities above 0.                                                     *)

NextConcurrent ==
    \/ item_new(Form(Rice, Blank, Kg, Blank, 0))
    \/ \E q \in {1, 2} : intake(1, q, Blank)
    \/ \E w \in Threads, q \in {1, 2}, b \in {Blank, Ann} :
           distribute_check(w, 1, q, b)
    \/ \E w \in Threads : distribute_insert(w)

SpecConcurrent == Init /\ [][NextConcurrent]_vars

---------------------------------------------------------------------------
(* What the claims speak of. *)

(* The sum of the quantities of item i's entries of one direction. *)
RECURSIVE SumQty(_, _, _)
SumQty(tx, i, ttype) ==
    IF tx = <<>> THEN 0
    ELSE (IF Head(tx).item_id = i /\ Head(tx).ttype = ttype
          THEN Head(tx).qty ELSE 0) + SumQty(Tail(tx), i, ttype)

(* stock(i): the IN quantities minus the OUT quantities of item i. *)
Balance(tx, i) == SumQty(tx, i, "IN") - SumQty(tx, i, "OUT")

HasEntry(i, ttype) ==
    \E k \in 1..Len(txs) : txs[k].item_id = i /\ txs[k].ttype = ttype

Permuted(tx, p) == [k \in 1..Len(tx) |-> tx[p[k]]]

Writes == {"intake", "distribute"}

(* C1: a distribute request on an item of the catalogue, an item without   *)
(* ledger entries included, for more than the item's stock is answered     *)
(* "insufficient stock" and leaves the ledger as it was.                   *)
C1_OversizedDistributeRejected ==
    [][(/\ req'.op = "distribute"
        /\ req'.item_id \in ItemIds
        /\ req'.qty > Balance(txs, req'.item_id))
       => (resp'.outcome = "insufficient_stock" /\ txs' = txs)]_vars

(* C2: with requests handled one at a time, no item's stock is ever        *)
(* negative.                                                               *)
C2_StockNeverNegative == \A i \in ItemIds : Balance(txs, i) >= 0

(* C3: an intake or distribute request for a quantity of 0 or less (here   *)
(* on an item of the catalogue) is not recorded, and every ledger entry    *)
(* (of such an item) has a quantity above 0.                               *)
C3_NonPositiveQuantityRejected ==
    /\ (req.op \in Writes /\ req.item_id \in ItemIds /\ req.qty <= 0)
           => resp.outcome # "recorded"
    /\ \A k \in 1..Len(txs) : txs[k].item_id \in ItemIds => txs[k].qty > 0

C5_LowStockIffBelowThreshold ==
    req.op = "dashboard" =>
        \A i \in ItemIds :
            (\E k \in 1..Len(resp.low_stock) : resp.low_stock[k][1] = i)
                <=> (items[i].min_qty > 0
                     /\ Balance(txs, i) < items[i].min_qty)

(* The duplicate guard as the claim words it: the normalized names agree,  *)
(* and so do the categories and the units.                                 *)
SameItem(it, form) ==
    /\ normalize_name(it.name) = normalize_name(form.name)
    /\ it.category = strip_or_none(form.category)
    /\ it.unit = strip_or_unit(form.unit)

(* C6: item_new answers "duplicate", names such an item and writes         *)
(* nothing exactly when an item of the catalogue has the form's            *)
(* normalized name, category and unit; otherwise it creates one item.      *)
C6_DuplicateIffSameNormalizedItem ==
    [][req'.op = "item_new" =>
        IF \E k \in ItemIds : SameItem(items[k], req'.form)
        THEN /\ resp'.outcome = "duplicate"
             /\ resp'.existing_id \in ItemIds
             /\ SameItem(items[resp'.existing_id], req'.form)
             /\ items' = items
        ELSE /\ resp'.outcome = "created"
             /\ Len(items') = Len(items) + 1]_vars

(* The sku a row asks for: none for an empty cell. *)
RowSku(row) == IF row.sku.kind = "str" THEN strip_or_none(row.sku.s) ELSE None

(* Row k of the batch is well formed: a name that is text and not blank, a *)
(* min_qty that is a number, and no sku that an item of the catalogue or   *)
(* an earlier row holds.                                                   *)
RowValid(its, rows, k) ==
    /\ rows[k].name.kind = "str" /\ strip(rows[k].name.s) # <<>>
    /\ rows[k].min_qty.kind = "num"
    /\ \/ IsNone(RowSku(rows[k]))
       \/ /\ \A i \in 1..Len(its) : its[i].sku # RowSku(rows[k])
          /\ \A j \in 1..(k - 1) : RowSku(rows[j]) # RowSku(rows[k])

RowStored(its, row) ==
    \E k \in 1..Len(its) :
        normalize_name(its[k].name) = normalize_name(row.name.s)

(* C7: an import does not abort on a bad row: whatever the other rows of   *)
(* the batch are, every well-formed row's item is in the catalogue after   *)
(* the import.                                                             *)
C7_ImportKeepsValidRows ==
    [][req'.op = "import_items" =>
        \A k \in 1..Len(req'.rows) :
            RowValid(items, req'.rows, k) => RowStored(items', req'.rows[k])]_vars

(* A row with a blank name: an empty cell, or blanks only. *)
RowBlank(row) ==
    row.name.kind = "nan" \/ (row.name.kind = "str" /\ strip(row.name.s) = <<>>)

BlankRows(rows) == Cardinality({k \in 1..Len(rows) : RowBlank(rows[k])})

(* C8: of an import that completes, the created count is the number of     *)
(* items the catalogue grew by, and created, skipped duplicates and rows   *)
(* with a blank name add up to the number of rows.                         *)
C8_ImportCountsAddUp ==
    [][(req'.op = "import_items" /\ resp'.outcome = "import_complete") =>
        /\ resp'.created = Len(items') - Len(items)
        /\ resp'.created + resp'.skipped + BlankRows(req'.rows)
               = Len(req'.rows)]_vars

(* C9: whatever the request, the ledger's entries stay as they are and at  *)
(* most one entry is appended.                                             *)
C9_LedgerAppendOnly ==
    [][/\ Len(txs') \in {Len(txs), Len(txs) + 1}
       /\ \A k \in 1..Len(txs) : txs'[k] = txs[k]]_vars

(* C9's case: an entry appended to a ledger that held entries. *)
C9_Witness ==
    /\ Len(txs) >= 2
    /\ req.op = "distribute" /\ resp.outcome = "recorded"

(* C10: an intake or distribute request (here for a quantity above 0)      *)
(* that names an item that is not in the catalogue is not recorded, and    *)
(* every ledger entry names an item of the catalogue.                      *)
C10_UnknownItemRejected ==
    /\ (req.op \in Writes /\ req.qty > 0 /\ req.item_id \notin ItemIds)
           => resp.outcome # "recorded"
    /\ \A k \in 1..Len(txs) : txs[k].qty > 0 => txs[k].item_id \in ItemIds

(* What a thread's stock check has to have read: the balance of the item   *)
(* over the entries committed by then, 0 for an item not in the catalogue. *)
BalanceSeen(t) ==
    IF t.known THEN Balance(SubSeq(txs, 1, t.seen), t.item_id) ELSE 0

Recorded(w) == threads[w].outcome = "recorded"

(* An OUT entry on the thread's item was committed after the thread's      *)
(* stock check and before its own insert.                                  *)
Overtaken(w) ==
    \E k \in (threads[w].seen + 1)..(threads[w].pos - 1) :
        txs[k].item_id = threads[w].item_id /\ txs[k].ttype = "OUT"

(* C11: with two distribute requests running at once, each reads the       *)
(* committed balance and checks it correctly (it goes on only when the     *)
(* balance it read covers its quantity, and is rejected only when it does  *)
(* not), and the stock of an item is below 0 only when a recorded request  *)
(* was overtaken between its check and its insert by another OUT entry on  *)
(* the item; C11_Witness is the oversold state the claim says is reached.  *)
C11_ConcurrentDistributeOversells ==
    /\ \A w \in Threads :
          /\ threads[w].pc = "checked" \/ Recorded(w)
                => /\ threads[w].stock = BalanceSeen(threads[w])
                   /\ threads[w].stock >= threads[w].qty
          /\ threads[w].outcome = "insufficient_stock"
                => /\ threads[w].stock = BalanceSeen(threads[w])
                   /\ threads[w].stock < threads[w].qty
    /\ \A i \in ItemIds :
          Balance(txs, i) < 0
             => \E w \in Threads :
                   Recorded(w) /\ threads[w].item_id = i /\ Overtaken(w)

C11_Witness ==
    /\ \A w \in Threads :
          /\ Recorded(w)
          /\ threads[w].item_id = 1
          /\ threads[w].stock >= threads[w].qty
    /\ 1 \in ItemIds
    /\ Balance(txs, 1) < 0

(* The row of the table that carries the name, 0 when there is none. *)
RowNamed(table, name) ==
    first_match([k \in 1..Len(table) |-> table[k].name = name])

(* C12: a distribute request rejected for insufficient stock writes        *)
(* nothing: the ledger, the beneficiaries (the one the request created for *)
(* a name not known before included), the donors and the catalogue are     *)
(* after the request what they were before it.                             *)
C12_RejectedDistributeWritesNothing ==
    [][req'.op = "distribute" /\ resp'.outcome = "insufficient_stock"
          => /\ beneficiaries' = beneficiaries
             /\ txs' = txs
             /\ donors' = donors
             /\ items' = items]_vars

C12_Witness ==
    /\ req.op = "distribute"
    /\ resp.outcome = "insufficient_stock"
    /\ req.item_id \in ItemIds
    /\ HasEntry(req.item_id, "IN")
    /\ ~IsNone(strip_or_none(req.party))
    /\ RowNamed(beneficiaries, Val(strip_or_none(req.party))) = 0

UniqueNames(table) ==
    \A j, k \in 1..Len(table) : table[j].name = table[k].name => j = k

(* The name the last request gave its counterparty, as the handler reads   *)
(* it: stripped, None when nothing is left.                                *)
PartyName(r) == strip_or_none(r.party)

(* The step appends one ledger entry, whose counterparty is id. *)
EntryAdded(field, id) ==
    /\ Len(txs') = Len(txs) + 1
    /\ SubSeq(txs', 1, Len(txs)) = txs
    /\ txs'[Len(txs')][field] = id

(* The step creates a row for name n in the table iff none carries n, and  *)
(* otherwise its new ledger entry references the row that does.            *)
CreatesIffUnknown(table, table_after, field, n) ==
    LET row == RowNamed(table, n)
    IN  /\ (table_after # table) <=> (row = 0)
        /\ row = 0 => /\ table_after = Append(table, [name |-> n])
                      /\ EntryAdded(field, Some(Len(table) + 1))
        /\ row # 0 => EntryAdded(field, Some(row))

NamesAndDirections ==
    /\ UniqueNames(donors)
    /\ UniqueNames(beneficiaries)
    /\ \A k \in 1..Len(txs) :
          /\ txs[k].ttype = "IN" => IsNone(txs[k].beneficiary_id)
          /\ txs[k].ttype = "OUT" => IsNone(txs[k].donor_id)

(* C13 as stated: every intake with donor name n and every distribute with *)
(* beneficiary name n, on an item of the catalogue of a store that         *)
(* enforces its foreign keys and answered without an exception, creates a  *)
(* row iff no row carries n and otherwise references the existing row in   *)
(* its new entry.                                                          *)
C13_EveryRequestFindsOrCreates ==
    [][(/\ req'.op \in Writes
        /\ fk_enforced
        /\ req'.item_id \in ItemIds
        /\ resp'.outcome # "error"
        /\ ~IsNone(PartyName(req')))
          => IF req'.op = "intake"
             THEN CreatesIffUnknown(donors, donors', "donor_id",
                                    Val(PartyName(req')))
             ELSE CreatesIffUnknown(beneficiaries, beneficiaries',
                                    "beneficiary_id", Val(PartyName(req')))
      ]_vars

(* C13: with requests handled one at a time, an intake or distribute that  *)
(* is recorded and names its counterparty n (stripped, not empty) creates  *)
(* a row for n iff no row carries exactly n, and otherwise its new entry   *)
(* references the existing row; a recorded request without a name          *)
(* references none, and a request that is not recorded creates no row; an  *)
(* intake leaves the beneficiaries and a distribute the donors alone; no   *)
(* two donors and no two beneficiaries share a name, an IN entry carries   *)
(* no beneficiary and an OUT entry no donor.                               *)
C13_RecordedRequestFindsOrCreates ==
    [][/\ req'.op = "intake" =>
             /\ beneficiaries' = beneficiaries
             /\ IF resp'.outcome # "recorded" THEN donors' = donors
                ELSE IF IsNone(PartyName(req'))
                THEN donors' = donors /\ EntryAdded("donor_id", None)
                ELSE CreatesIffUnknown(donors, donors', "donor_id",
                                       Val(PartyName(req')))
       /\ req'.op = "distribute" =>
             /\ donors' = donors
             /\ IF resp'.outcome # "recorded"
                THEN beneficiaries' = beneficiaries
                ELSE IF IsNone(PartyName(req'))
                THEN /\ beneficiaries' = beneficiaries
                     /\ EntryAdded("beneficiary_id", None)
                ELSE CreatesIffUnknown(beneficiaries, beneficiaries',
                                       "beneficiary_id", Val(PartyName(req')))
       /\ NamesAndDirections'
      ]_vars

(* A recorded request whose name was known already: the entry it added     *)
(* references the row an earlier entry references.                         *)
C13_Witness ==
    /\ req.op \in Writes
    /\ resp.outcome = "recorded"
    /\ ~IsNone(PartyName(req))
    /\ Len(txs) >= 2
    /\ LET field == IF req.op = "intake" THEN "donor_id" ELSE "beneficiary_id"
           table == IF req.op = "intake" THEN donors ELSE beneficiaries
           last  == txs[Len(txs)][field]
       IN  /\ ~IsNone(last)
           /\ table[Val(last)].name = Val(PartyName(req))
           /\ \E k \in 1..(Len(txs) - 1) : txs[k][field] = last
           /\ Len(table) >= 2

============================================================================
